---- MODULE Spec2Model ----
(***************************************************************************)
(* annotated_types: Interval / Len grouped metadata and the comparison     *)
(* builders X and len_X (src/annotated_types/__init__.py).                 *)
(*                                                                         *)
(* A caller holds one grouped-metadata object (cur) and applies the        *)
(* operators of the module to it; every operator either returns a value    *)
(* or raises.  Objects are frozen dataclasses, so an operator never        *)
(* changes its receiver: a successful narrowing hands the caller a new     *)
(* object, a raise leaves the caller with the old one.                     *)
(*                                                                         *)
(*   cur      the Interval or Len the caller holds                         *)
(*   out      the last call: operator, receiver, argument, result          *)
(*   origin   the call that produced the first object of the current       *)
(*            chain: a constructor call or a comparison on X / len_X       *)
(*   steps    successful narrowings since origin                           *)
(*   nonNone  no argument since origin (origin's included) was None        *)
(*   nonNeg   no integer argument since origin was negative                *)
(*                                                                         *)
(* origin, steps, nonNone and nonNeg record the history of cur; the        *)
(* library keeps none of them.                                             *)
(***************************************************************************)
EXTENDS Integers, Sequences, FiniteSets

VARIABLES cur, out, origin, steps, nonNone, nonNeg

vars == <<cur, out, origin, steps, nonNone, nonNeg>>

(***************************************************************************)
(* Bounds of the model.                                                    *)
(***************************************************************************)
MaxBound == 1
MaxNeg == 1
MaxLength == 2
MaxSteps == 3

(***************************************************************************)
(* Python values.                                                          *)
(***************************************************************************)
PyNone == [t |-> "NoneType"]

PyInt(n) == [t |-> "int", v |-> n]

PyStr == [t |-> "str", s |-> "abc"]

PyBool(b) == [t |-> "bool", b |-> b]

PyList(items) == [t |-> "list", items |-> items]

Ok(v) == [kind |-> "ok", val |-> v]

Raise(e) == [kind |-> e]

isinstance_int(x) == x.t = "int"

\* a - b on Python values: defined on two ints, TypeError otherwise
PySub(a, b) ==
    IF isinstance_int(a) /\ isinstance_int(b) THEN Ok(PyInt(a.v - b.v))
    ELSE Raise("TypeError")

PyAdd(a, b) ==
    IF isinstance_int(a) /\ isinstance_int(b) THEN Ok(PyInt(a.v + b.v))
    ELSE Raise("TypeError")

\* min(a, b): evaluates b < a, which raises TypeError unless both are ints
PyMin(a, b) ==
    IF isinstance_int(a) /\ isinstance_int(b)
    THEN Ok(IF b.v < a.v THEN b ELSE a)
    ELSE Raise("TypeError")

\* max(a, b): evaluates b > a, which raises TypeError unless both are ints
PyMax(a, b) ==
    IF isinstance_int(a) /\ isinstance_int(b)
    THEN Ok(IF b.v > a.v THEN b ELSE a)
    ELSE Raise("TypeError")

(***************************************************************************)
(* Single-bound metadata.                                                  *)
(***************************************************************************)
Gt(x) == [t |-> "Gt", gt |-> x]

Ge(x) == [t |-> "Ge", ge |-> x]

Lt(x) == [t |-> "Lt", lt |-> x]

Le(x) == [t |-> "Le", le |-> x]

MinLen(x) == [t |-> "MinLen", min_length |-> x]

MaxLen(x) == [t |-> "MaxLen", max_length |-> x]

(***************************************************************************)
(* Interval.                                                               *)
(***************************************************************************)
Interval(gt, ge, lt, le) ==
    [t |-> "Interval", gt |-> gt, ge |-> ge, lt |-> lt, le |-> le]

\* mutant of Interval.__iter__: the inclusive lower bound comes first
Interval__iter__ge_first(self) ==
    PyList(
        (IF self.ge # PyNone THEN <<Ge(self.ge)>> ELSE <<>>)
        \o (IF self.gt # PyNone THEN <<Gt(self.gt)>> ELSE <<>>)
        \o (IF self.lt # PyNone THEN <<Lt(self.lt)>> ELSE <<>>)
        \o (IF self.le # PyNone THEN <<Le(self.le)>> ELSE <<>>))

\* Interval.__iter__: one single-bound per field that is not None
Interval__iter__(self) ==
    PyList(
        (IF self.gt # PyNone THEN <<Gt(self.gt)>> ELSE <<>>)
        \o (IF self.ge # PyNone THEN <<Ge(self.ge)>> ELSE <<>>)
        \o (IF self.lt # PyNone THEN <<Lt(self.lt)>> ELSE <<>>)
        \o (IF self.le # PyNone THEN <<Le(self.le)>> ELSE <<>>))

\* mutants of Interval.__check
Interval__check_swapped(self, which) ==
    IF \/ which = "lo" /\ (self.gt # PyNone \/ self.ge # PyNone)
       \/ which = "hi" /\ (self.lt # PyNone \/ self.le # PyNone)
    THEN Raise("ValueError")
    ELSE Ok(PyNone)

Interval__check_strict_only(self, which) ==
    IF \/ which = "lo" /\ self.lt # PyNone
       \/ which = "hi" /\ self.gt # PyNone
    THEN Raise("ValueError")
    ELSE Ok(PyNone)

\* Interval.__check
Interval__check(self, which) ==
    IF \/ which = "lo" /\ (self.lt # PyNone \/ self.le # PyNone)
       \/ which = "hi" /\ (self.gt # PyNone \/ self.ge # PyNone)
    THEN Raise("ValueError")
    ELSE Ok(PyNone)

Interval__lt__(self, other) ==
    IF Interval__check(self, "lo").kind # "ok" THEN Interval__check(self, "lo")
    ELSE Ok([self EXCEPT !.lt = other])

\* mutant of Interval.__le__: sets the exclusive field
Interval__le__sets_lt(self, other) ==
    IF Interval__check(self, "lo").kind # "ok" THEN Interval__check(self, "lo")
    ELSE Ok([self EXCEPT !.lt = other])

Interval__le__(self, other) ==
    IF Interval__check(self, "lo").kind # "ok" THEN Interval__check(self, "lo")
    ELSE Ok([self EXCEPT !.le = other])

Interval__ge__(self, other) ==
    IF Interval__check(self, "hi").kind # "ok" THEN Interval__check(self, "hi")
    ELSE Ok([self EXCEPT !.ge = other])

Interval__gt__(self, other) ==
    IF Interval__check(self, "hi").kind # "ok" THEN Interval__check(self, "hi")
    ELSE Ok([self EXCEPT !.gt = other])

(***************************************************************************)
(* X, the numeric builder (class __Magic).                                 *)
(***************************************************************************)
Magic__lt__(other) == Ok(Interval(PyNone, PyNone, other, PyNone))

Magic__le__(other) == Ok(Interval(PyNone, PyNone, PyNone, other))

Magic__eq__(other) == Ok(Interval(PyNone, other, PyNone, other))

Magic__ge__(other) == Ok(Interval(PyNone, other, PyNone, PyNone))

Magic__gt__(other) == Ok(Interval(other, PyNone, PyNone, PyNone))

(***************************************************************************)
(* Len (LenObj here: Sequences already defines Len).                       *)
(***************************************************************************)
LenObj(min_length, max_length) ==
    [t |-> "Len", min_length |-> min_length, max_length |-> max_length]

\* mutant of Len.__iter__: emits MinLen for a zero minimum too
Len__iter__zero_min(self) ==
    PyList(
        (IF self.min_length.v >= 0 THEN <<MinLen(self.min_length)>> ELSE <<>>)
        \o (IF self.max_length # PyNone THEN <<MaxLen(self.max_length)>> ELSE <<>>))

\* Len.__iter__
Len__iter__(self) ==
    PyList(
        (IF self.min_length.v > 0 THEN <<MinLen(self.min_length)>> ELSE <<>>)
        \o (IF self.max_length # PyNone THEN <<MaxLen(self.max_length)>> ELSE <<>>))

\* mutant of Len.__check: the conflict test comes before the integer test
Len__check_conflict_first(self, other, which) ==
    IF \/ which # "max" /\ self.min_length # PyInt(0)
       \/ which # "min" /\ self.max_length # PyNone
    THEN Raise("ValueError")
    ELSE IF ~isinstance_int(other) THEN Raise("TypeError")
    ELSE Ok(PyNone)

\* Len.__check; which is "min", "max" or "None" (the default)
Len__check(self, other, which) ==
    IF ~isinstance_int(other) THEN Raise("TypeError")
    ELSE IF \/ which # "max" /\ self.min_length # PyInt(0)
            \/ which # "min" /\ self.max_length # PyNone
    THEN Raise("ValueError")
    ELSE Ok(PyNone)

\* mutant of Len.__eq__: an integer fixes only the maximum
Len__eq__max_only(self, other) ==
    IF other.t = "Len"
    THEN Ok(PyBool(self.min_length = other.min_length
                   /\ self.max_length = other.max_length))
    ELSE IF Len__check(self, other, "None").kind # "ok"
    THEN Len__check(self, other, "None")
    ELSE Ok(LenObj(self.min_length, other))

\* Len.__eq__
Len__eq__(self, other) ==
    IF other.t = "Len"
    THEN Ok(PyBool(self.min_length = other.min_length
                   /\ self.max_length = other.max_length))
    ELSE IF Len__check(self, other, "None").kind # "ok"
    THEN Len__check(self, other, "None")
    ELSE Ok(LenObj(other, other))

\* Len.__lt__: replace(self, max_length=min(self.max_length - 1, other))
Len__lt__(self, other) ==
    IF Len__check(self, other, "max").kind # "ok"
    THEN Len__check(self, other, "max")
    ELSE LET d == PySub(self.max_length, PyInt(1)) IN
         IF d.kind # "ok" THEN d
         ELSE LET m == PyMin(d.val, other) IN
              IF m.kind # "ok" THEN m
              ELSE Ok([self EXCEPT !.max_length = m.val])

\* Len.__le__: replace(self, max_length=min(self.max_length, other))
Len__le__(self, other) ==
    IF Len__check(self, other, "max").kind # "ok"
    THEN Len__check(self, other, "max")
    ELSE LET m == PyMin(self.max_length, other) IN
         IF m.kind # "ok" THEN m
         ELSE Ok([self EXCEPT !.max_length = m.val])

\* Len.__ge__: replace(self, min_length=max(self.min_length, other))
Len__ge__(self, other) ==
    IF Len__check(self, other, "min").kind # "ok"
    THEN Len__check(self, other, "min")
    ELSE LET m == PyMax(self.min_length, other) IN
         IF m.kind # "ok" THEN m
         ELSE Ok([self EXCEPT !.min_length = m.val])

\* Len.__gt__: replace(self, min_length=max(self.min_length + 1, other))
Len__gt__(self, other) ==
    IF Len__check(self, other, "min").kind # "ok"
    THEN Len__check(self, other, "min")
    ELSE LET d == PyAdd(self.min_length, PyInt(1)) IN
         IF d.kind # "ok" THEN d
         ELSE LET m == PyMax(d.val, other) IN
              IF m.kind # "ok" THEN m
              ELSE Ok([self EXCEPT !.min_length = m.val])

(***************************************************************************)
(* len_X, the length builder (class __LenMagic).  The builder is only      *)
(* ever compared with values other than itself.                            *)
(***************************************************************************)
LenMagic__check(other) ==
    IF ~isinstance_int(other) THEN Raise("TypeError") ELSE Ok(PyNone)

LenMagic__lt__(other) ==
    IF LenMagic__check(other).kind # "ok" THEN LenMagic__check(other)
    ELSE Ok(LenObj(PyInt(0), PyInt(other.v - 1)))

LenMagic__le__(other) ==
    IF LenMagic__check(other).kind # "ok" THEN LenMagic__check(other)
    ELSE Ok(LenObj(PyInt(0), other))

LenMagic__eq__(other) ==
    IF LenMagic__check(other).kind # "ok" THEN LenMagic__check(other)
    ELSE Ok(LenObj(other, other))

LenMagic__ge__(other) ==
    IF LenMagic__check(other).kind # "ok" THEN LenMagic__check(other)
    ELSE Ok(LenObj(other, PyNone))

LenMagic__gt__(other) ==
    IF LenMagic__check(other).kind # "ok" THEN LenMagic__check(other)
    ELSE Ok(LenObj(PyInt(other.v + 1), PyNone))

(***************************************************************************)
(* Argument sets.                                                          *)
(***************************************************************************)
\* bounds handed to Interval and X
Bounds == {PyNone} \cup {PyInt(i) : i \in 0..MaxBound}

\* integers handed to Len and len_X
LenInts == {PyInt(i) : i \in (0 - MaxNeg)..MaxLength}

\* values that are neither an integer nor a Len
NonInts == {PyNone, PyStr}

\* Interval(gt=.., ge=.., lt=.., le=..) as a caller may construct it
Intervals ==
    {Interval(a, b, c, d) : a \in Bounds, b \in Bounds, c \in Bounds, d \in Bounds}

\* LenObj(min_length=.., max_length=..) as a caller may construct it
Lens == {LenObj(a, b) : a \in LenInts, b \in LenInts \cup {PyNone}}

EmptyInterval == Interval(PyNone, PyNone, PyNone, PyNone)

EmptyLen == LenObj(PyInt(0), PyNone)

(***************************************************************************)
(* The caller.                                                             *)
(***************************************************************************)
\* the builder singletons
X == [t |-> "__Magic"]

len_X == [t |-> "__LenMagic"]

\* the last call made: operator, receiver, argument and what came of it
Call(op, self, other, res) ==
    [op |-> op, self |-> self, other |-> other, res |-> res]

NonNegArg(other) == isinstance_int(other) => other.v >= 0

\* a narrowing operator applied to the object held: on success the caller
\* continues with the returned copy, on a raise with the object it had
Narrow(op, other, res) ==
    /\ res.kind = "ok" => steps < MaxSteps
    /\ out' = Call(op, cur, other, res)
    /\ IF res.kind = "ok"
       THEN /\ cur' = res.val
            /\ steps' = steps + 1
            /\ nonNone' = (nonNone /\ other # PyNone)
            /\ nonNeg' = (nonNeg /\ NonNegArg(other))
       ELSE UNCHANGED <<cur, steps, nonNone, nonNeg>>
    /\ UNCHANGED origin

\* an operator whose result is inspected and dropped
Observe(op, other, res) ==
    /\ out' = Call(op, cur, other, res)
    /\ UNCHANGED <<cur, origin, steps, nonNone, nonNeg>>

\* a comparison on a builder: on success the caller starts over from the
\* object the builder returned
Build(call) ==
    IF call.res.kind = "ok"
    THEN /\ cur' = call.res.val
         /\ origin' = call
         /\ steps' = 0
         /\ nonNone' = (call.other # PyNone)
         /\ nonNeg' = NonNegArg(call.other)
    ELSE UNCHANGED <<cur, origin, steps, nonNone, nonNeg>>

Init ==
    /\ cur \in Intervals \cup Lens
    /\ out = Call("ctor", cur, PyNone, Ok(cur))
    /\ origin = out
    /\ steps = 0
    /\ nonNone = TRUE
    /\ nonNeg = TRUE

IntervalIter ==
    /\ cur.t = "Interval"
    /\ Observe("Interval.__iter__", PyNone, Ok(Interval__iter__(cur)))

IntervalLt ==
    /\ cur.t = "Interval"
    /\ \E other \in Bounds : Narrow("Interval.__lt__", other, Interval__lt__(cur, other))

IntervalLe ==
    /\ cur.t = "Interval"
    /\ \E other \in Bounds : Narrow("Interval.__le__", other, Interval__le__(cur, other))

IntervalGe ==
    /\ cur.t = "Interval"
    /\ \E other \in Bounds : Narrow("Interval.__ge__", other, Interval__ge__(cur, other))

IntervalGt ==
    /\ cur.t = "Interval"
    /\ \E other \in Bounds : Narrow("Interval.__gt__", other, Interval__gt__(cur, other))

MagicLt ==
    \E other \in Bounds :
        /\ out' = Call("X.__lt__", X, other, Magic__lt__(other))
        /\ Build(Call("X.__lt__", X, other, Magic__lt__(other)))

MagicLe ==
    \E other \in Bounds :
        /\ out' = Call("X.__le__", X, other, Magic__le__(other))
        /\ Build(Call("X.__le__", X, other, Magic__le__(other)))

MagicEq ==
    \E other \in Bounds :
        /\ out' = Call("X.__eq__", X, other, Magic__eq__(other))
        /\ Build(Call("X.__eq__", X, other, Magic__eq__(other)))

MagicGe ==
    \E other \in Bounds :
        /\ out' = Call("X.__ge__", X, other, Magic__ge__(other))
        /\ Build(Call("X.__ge__", X, other, Magic__ge__(other)))

MagicGt ==
    \E other \in Bounds :
        /\ out' = Call("X.__gt__", X, other, Magic__gt__(other))
        /\ Build(Call("X.__gt__", X, other, Magic__gt__(other)))

LenIter ==
    /\ cur.t = "Len"
    /\ Observe("Len.__iter__", PyNone, Ok(Len__iter__(cur)))

LenEq ==
    /\ cur.t = "Len"
    /\ \E other \in LenInts \cup NonInts \cup Lens :
          IF other.t = "Len"
          THEN Observe("Len.__eq__", other, Len__eq__(cur, other))
          ELSE Narrow("Len.__eq__", other, Len__eq__(cur, other))

LenLt ==
    /\ cur.t = "Len"
    /\ \E other \in LenInts \cup NonInts : Narrow("Len.__lt__", other, Len__lt__(cur, other))

LenLe ==
    /\ cur.t = "Len"
    /\ \E other \in LenInts \cup NonInts : Narrow("Len.__le__", other, Len__le__(cur, other))

LenGe ==
    /\ cur.t = "Len"
    /\ \E other \in LenInts \cup NonInts : Narrow("Len.__ge__", other, Len__ge__(cur, other))

LenGt ==
    /\ cur.t = "Len"
    /\ \E other \in LenInts \cup NonInts : Narrow("Len.__gt__", other, Len__gt__(cur, other))

LenMagicLt ==
    \E other \in LenInts \cup NonInts :
        /\ out' = Call("len_X.__lt__", len_X, other, LenMagic__lt__(other))
        /\ Build(Call("len_X.__lt__", len_X, other, LenMagic__lt__(other)))

LenMagicLe ==
    \E other \in LenInts \cup NonInts :
        /\ out' = Call("len_X.__le__", len_X, other, LenMagic__le__(other))
        /\ Build(Call("len_X.__le__", len_X, other, LenMagic__le__(other)))

LenMagicEq ==
    \E other \in LenInts \cup NonInts :
        /\ out' = Call("len_X.__eq__", len_X, other, LenMagic__eq__(other))
        /\ Build(Call("len_X.__eq__", len_X, other, LenMagic__eq__(other)))

LenMagicGe ==
    \E other \in LenInts \cup NonInts :
        /\ out' = Call("len_X.__ge__", len_X, other, LenMagic__ge__(other))
        /\ Build(Call("len_X.__ge__", len_X, other, LenMagic__ge__(other)))

LenMagicGt ==
    \E other \in LenInts \cup NonInts :
        /\ out' = Call("len_X.__gt__", len_X, other, LenMagic__gt__(other))
        /\ Build(Call("len_X.__gt__", len_X, other, LenMagic__gt__(other)))

Next ==
    \/ IntervalIter
    \/ IntervalLt
    \/ IntervalLe
    \/ IntervalGe
    \/ IntervalGt
    \/ MagicLt
    \/ MagicLe
    \/ MagicEq
    \/ MagicGe
    \/ MagicGt
    \/ LenIter
    \/ LenEq
    \/ LenLt
    \/ LenLe
    \/ LenGe
    \/ LenGt
    \/ LenMagicLt
    \/ LenMagicLe
    \/ LenMagicEq
    \/ LenMagicGe
    \/ LenMagicGt

Spec == Init /\ [][Next]_vars

TypeOK ==
    /\ cur.t \in {"Interval", "Len"}
    /\ out.res.kind \in {"ok", "TypeError", "ValueError"}
    /\ origin.self \in {X, len_X} \/ origin.op = "ctor"
    /\ origin.res.kind = "ok"
    /\ steps \in 0..MaxSteps

(***************************************************************************)
(* Properties.                                                             *)
(***************************************************************************)
HasLower(I) == I.gt # PyNone \/ I.ge # PyNone

HasUpper(I) == I.lt # PyNone \/ I.le # PyNone

IntVals == {PyInt(i) : i \in 0..MaxBound}

\* the last call raised ValueError if blocked and returned expected if not
GuardedBy(blocked, expected) ==
    IF blocked THEN out.res = Raise("ValueError") ELSE out.res = Ok(expected)

\* C1 as stated: an upper-bound narrowing (<, <=) of an Interval raises
\* ValueError exactly when a lower bound (gt or ge) is set and otherwise
\* returns a copy with lt (le) = v; a lower-bound narrowing (>=, >) raises
\* exactly when an upper bound (lt or le) is set and otherwise returns a copy
\* with ge (gt) = v.
C1_GuardOnOppositeBound ==
    /\ out.op = "Interval.__lt__" =>
          GuardedBy(HasLower(out.self), [out.self EXCEPT !.lt = out.other])
    /\ out.op = "Interval.__le__" =>
          GuardedBy(HasLower(out.self), [out.self EXCEPT !.le = out.other])
    /\ out.op = "Interval.__ge__" =>
          GuardedBy(HasUpper(out.self), [out.self EXCEPT !.ge = out.other])
    /\ out.op = "Interval.__gt__" =>
          GuardedBy(HasUpper(out.self), [out.self EXCEPT !.gt = out.other])

\* C1 amended: an upper-bound narrowing (<, <=) of an Interval raises
\* ValueError exactly when an upper bound (lt or le) is already set and
\* otherwise returns a copy with lt (le) = v; a lower-bound narrowing (>=, >)
\* raises exactly when a lower bound (gt or ge) is already set and otherwise
\* returns a copy with ge (gt) = v.
C1_GuardOnSameBound ==
    /\ out.op = "Interval.__lt__" =>
          GuardedBy(HasUpper(out.self), [out.self EXCEPT !.lt = out.other])
    /\ out.op = "Interval.__le__" =>
          GuardedBy(HasUpper(out.self), [out.self EXCEPT !.le = out.other])
    /\ out.op = "Interval.__ge__" =>
          GuardedBy(HasLower(out.self), [out.self EXCEPT !.ge = out.other])
    /\ out.op = "Interval.__gt__" =>
          GuardedBy(HasLower(out.self), [out.self EXCEPT !.gt = out.other])

\* a lower-bound narrowing raised on an Interval that has a lower bound and no
\* upper bound
C1_Witness ==
    /\ out.op = "Interval.__ge__"
    /\ HasLower(out.self)
    /\ ~HasUpper(out.self)
    /\ out.res = Raise("ValueError")

\* C2: for non-None a and b, (X > a) <= b returns Interval(gt=a, le=b), which
\* iterates as [Gt(a), Le(b)]; a further > or >= on that result raises
\* ValueError.
C2_ChainedNarrowing ==
    \A a \in IntVals, b \in IntVals :
        LET first == Interval(a, PyNone, PyNone, PyNone)
            both == Interval(a, PyNone, PyNone, b)
        IN  /\ origin = Call("X.__gt__", X, a, Ok(first)) =>
                /\ (steps = 1 /\ out.op = "Interval.__le__" /\ out.self = first
                        /\ out.other = b)
                     => (out.res = Ok(both) /\ cur = both)
                /\ (out.self = both /\ out.op = "Interval.__iter__")
                     => out.res = Ok(PyList(<<Gt(a), Le(b)>>))
                /\ (out.self = both
                        /\ out.op \in {"Interval.__gt__", "Interval.__ge__"})
                     => (out.res = Raise("ValueError") /\ cur = both)

\* X > a, then <= b, then a lower-bound narrowing of the result, which raised
C2_Witness ==
    /\ origin.op = "X.__gt__"
    /\ origin.other \in IntVals
    /\ steps = 1
    /\ cur.le \in IntVals
    /\ cur.gt = origin.other
    /\ out.self = cur
    /\ out.op = "Interval.__ge__"
    /\ out.res = Raise("ValueError")

Rank(x) ==
    CASE x.t = "Gt" -> 1
      [] x.t = "Ge" -> 2
      [] x.t = "Lt" -> 3
      [] x.t = "Le" -> 4

\* C3: iterating an Interval yields one single-bound constraint per field
\* that is not None and none for a field that is None, in the order Gt, Ge,
\* Lt, Le; the empty Interval yields nothing, and gt and ge both set yield
\* both.
C3_IntervalExpansion ==
    out.op = "Interval.__iter__" =>
        LET I == out.self
            items == out.res.val.items
            n == Len(items)
        IN  /\ out.res.kind = "ok"
            /\ n = Cardinality({f \in {"gt", "ge", "lt", "le"} : I[f] # PyNone})
            /\ I.gt # PyNone => \E i \in 1..n : items[i] = Gt(I.gt)
            /\ I.ge # PyNone => \E i \in 1..n : items[i] = Ge(I.ge)
            /\ I.lt # PyNone => \E i \in 1..n : items[i] = Lt(I.lt)
            /\ I.le # PyNone => \E i \in 1..n : items[i] = Le(I.le)
            /\ \A i \in 1..n : items[i].t \in {"Gt", "Ge", "Lt", "Le"}
            /\ \A i \in 1..n : \A j \in 1..n :
                  i < j => Rank(items[i]) < Rank(items[j])
            /\ I = EmptyInterval => items = <<>>

\* an Interval with gt, ge and le set and lt None was iterated
C3_Witness ==
    /\ out.op = "Interval.__iter__"
    /\ out.self.gt # PyNone
    /\ out.self.ge # PyNone
    /\ out.self.lt = PyNone
    /\ out.self.le # PyNone
    /\ Len(out.res.val.items) = 3

LenNarrowings == {"Len.__lt__", "Len.__le__", "Len.__ge__", "Len.__gt__"}

\* C4: every "<= k" with an integer k on a Len returns a copy whose
\* max_length is min(current max_length, k) (k when there is none), so that
\* "<= n" followed by "<= m" with m > n succeeds and leaves max_length = n.
C4_MaxLengthMonotonic ==
    (out.op = "Len.__le__" /\ isinstance_int(out.other)) =>
        /\ out.res.kind = "ok"
        /\ out.res.val.min_length = out.self.min_length
        /\ out.res.val.max_length =
              IF out.self.max_length = PyNone THEN out.other
              ELSE IF out.other.v < out.self.max_length.v THEN out.other
              ELSE out.self.max_length

\* C5: on every Len, each of <, <=, >=, > and == with an argument that is
\* neither an integer nor a Len raises TypeError, whatever bounds the Len
\* holds.
C5_TypeCheckFirst ==
    (out.op \in LenNarrowings \cup {"Len.__eq__"} /\ out.other.t \notin {"int", "Len"})
        => out.res = Raise("TypeError")

\* >= with a string on a Len that has both bounds set raised TypeError
C5_Witness ==
    /\ out.op = "Len.__ge__"
    /\ out.other = PyStr
    /\ out.self.min_length # PyInt(0)
    /\ out.self.max_length # PyNone
    /\ out.res = Raise("TypeError")

\* equality of two Len objects is structural
StructuralEq ==
    (out.op = "Len.__eq__" /\ out.other.t = "Len") =>
        out.res = Ok(PyBool(out.self.min_length = out.other.min_length
                            /\ out.self.max_length = out.other.max_length))

\* C6 as stated: for every Len L and integer n, L == n returns
\* Len(min_length=n, max_length=n); == between two Len objects is structural.
C6_EqIntOnEveryLen ==
    /\ (out.op = "Len.__eq__" /\ isinstance_int(out.other)) =>
          out.res = Ok(LenObj(out.other, out.other))
    /\ StructuralEq

\* C6 amended: for every Len L with min_length = 0 and no max_length and
\* every integer n, L == n returns Len(min_length=n, max_length=n); for every
\* other Len L, L == n raises ValueError; == between two Len objects is
\* structural.
C6_EqIntOnUnboundedLen ==
    /\ (out.op = "Len.__eq__" /\ isinstance_int(out.other)) =>
          IF out.self = EmptyLen
          THEN out.res = Ok(LenObj(out.other, out.other))
          ELSE out.res = Raise("ValueError")
    /\ StructuralEq

\* Len() == n with a non-zero integer n returned a Len
C6_Witness ==
    /\ out.op = "Len.__eq__"
    /\ out.self = EmptyLen
    /\ isinstance_int(out.other)
    /\ out.other # PyInt(0)
    /\ out.res.kind = "ok"
    /\ cur = out.res.val

\* C7: iterating a Len yields MinLen(min_length) iff min_length > 0, then
\* MaxLen(max_length) iff max_length is not None; Len() yields nothing and
\* Len(min_length=0, max_length=k) yields exactly [MaxLen(k)].
C7_LenExpansion ==
    out.op = "Len.__iter__" =>
        LET L == out.self
            items == out.res.val.items
            n == Len(items)
        IN  /\ out.res.kind = "ok"
            /\ n <= 2
            /\ (\E i \in 1..n : items[i].t = "MinLen") <=> L.min_length.v > 0
            /\ (\E i \in 1..n : items[i].t = "MaxLen") <=> L.max_length # PyNone
            /\ \A i \in 1..n :
                  \/ items[i] = MinLen(L.min_length) /\ i = 1
                  \/ items[i] = MaxLen(L.max_length) /\ i = n
            /\ L = EmptyLen => items = <<>>
            /\ (L.min_length = PyInt(0) /\ L.max_length # PyNone)
                  => items = <<MaxLen(L.max_length)>>

\* a Len with min_length = 0 and a max_length was iterated
C7_Witness ==
    /\ out.op = "Len.__iter__"
    /\ out.self.min_length = PyInt(0)
    /\ out.self.max_length # PyNone
    /\ Len(out.res.val.items) = 1

\* C8: every Len obtained from one comparison on len_X followed by successful
\* narrowings with integer arguments has min_length <= max_length when
\* max_length is not None, and non-negative min_length and max_length when
\* all the arguments were non-negative.
C8_LenBounds ==
    (origin.self = len_X /\ cur.t = "Len") =>
        /\ cur.max_length # PyNone => cur.min_length.v <= cur.max_length.v
        /\ nonNeg =>
              /\ cur.min_length.v >= 0
              /\ cur.max_length # PyNone => cur.max_length.v >= 0

IntervalNarrowings ==
    {"Interval.__lt__", "Interval.__le__", "Interval.__ge__", "Interval.__gt__"}

\* C9: every Interval obtained from Interval() or from one comparison on X by
\* successful narrowings with bounds that are not None has at most one of
\* gt/ge and at most one of lt/le set; from Interval() at most two narrowings
\* succeed, and after two all four operators raise ValueError.
C9_Exclusivity ==
    (cur.t = "Interval" /\ nonNone
        /\ (origin.self = X \/ origin.res.val = EmptyInterval)) =>
        /\ ~(cur.gt # PyNone /\ cur.ge # PyNone)
        /\ ~(cur.lt # PyNone /\ cur.le # PyNone)
        /\ origin.res.val = EmptyInterval =>
              /\ steps <= 2
              /\ steps = 2 =>
                    \A v \in IntVals :
                        /\ Interval__lt__(cur, v) = Raise("ValueError")
                        /\ Interval__le__(cur, v) = Raise("ValueError")
                        /\ Interval__ge__(cur, v) = Raise("ValueError")
                        /\ Interval__gt__(cur, v) = Raise("ValueError")
              /\ (steps = 2 /\ out.self = cur /\ out.op \in IntervalNarrowings)
                    => out.res = Raise("ValueError")

\* two narrowings of Interval() succeeded and a third one raised
C9_Witness ==
    /\ origin.op = "ctor"
    /\ origin.res.val = EmptyInterval
    /\ nonNone
    /\ steps = 2
    /\ out.self = cur
    /\ out.op = "Interval.__lt__"
    /\ out.res = Raise("ValueError")

\* C10: for every integer n and each of <, <=, >=, >, the operator applied to
\* Len() returns the Len that the same operator applied to len_X returns.
C10_BuilderAgreement ==
    (out.self = EmptyLen /\ isinstance_int(out.other)) =>
        /\ out.op = "Len.__lt__" => out.res = LenMagic__lt__(out.other)
        /\ out.op = "Len.__le__" => out.res = LenMagic__le__(out.other)
        /\ out.op = "Len.__ge__" => out.res = LenMagic__ge__(out.other)
        /\ out.op = "Len.__gt__" => out.res = LenMagic__gt__(out.other)

====
